---- MODULE Spec2Model ----
(***************************************************************************)
(* Argument.process / Argument.cast / Argument.collect of                  *)
(* src/src/struct/Argument.js as a state machine.                          *)
(*                                                                         *)
(* One process call is followed from its start to its end.  The steps are  *)
(* the stretches of code between two points where the call waits for the   *)
(* outside world: the call of process up to the first turn, the start of   *)
(* a turn (promptOne up to awaitMessages), and the handling of what        *)
(* awaitMessages delivers (a reply or the time-out) up to the next turn    *)
(* or the end of collect.                                                  *)
(*                                                                         *)
(* The message.util bookkeeping (shouldEdit, setLastResponse, lines        *)
(* 424-427 and 484) touches no state that the prompt loop reads and is     *)
(* left out.  Regular-expression types (lines 336-351) are left out too.   *)
(***************************************************************************)
EXTENDS Integers, Sequences, FiniteSets, TLC

VARIABLES
    cfg,            \* the Argument's options (constructor, lines 172-257)
    pc,             \* "idle" | "turn" | "await" | "done"
    commandInput,   \* collect's third parameter: the trimmed failing word
    isInfinite,     \* line 380
    values,         \* line 382 (<<>> stands for null too when ~isInfinite)
    args,           \* the prior-arguments map handed to process
    retryCount,     \* promptOne's second parameter
    prevMessage,    \* promptOne's first parameter
    sent,           \* the prompt message sent in the current turn (line 405)
    prompts,        \* the handler's active-prompt registry
    collected,      \* how collect ended
    outcome,        \* how process ended
    ev,             \* what the last step did (calls made, in order)
    invalidReplies, \* replies so far that caused a retry turn
    accepted,       \* contents of the replies whose cast value was kept
    removes         \* calls of handler.removePrompt so far

vars == <<cfg, pc, commandInput, isInfinite, values, args, retryCount,
          prevMessage, sent, prompts, collected, outcome, ev, invalidReplies,
          accepted, removes>>

-----------------------------------------------------------------------------
(* Bounds of the model *)

MaxRetries == 1
MaxLimit == 2
MaxRetryCount == 3
MaxChoices == 2

-----------------------------------------------------------------------------
(* Values *)

Null == "<null>"
Undefined == "<undefined>"
COMMAND_CANCELLED == "Symbol(COMMAND_CANCELLED)"

\* a rejection that is an Error object, and one that is not
ErrorObject == "Error: boom"
PlainRejection == "boom"
\* the user's casting function may throw or reject with any value; the
\* transport rejects with Error objects (and, when the time is up, with the
\* collected messages)
Failures == {ErrorObject, PlainRejection}
TransportFailures == {ErrorObject}
\* what awaitMessages rejects with when the time is up: the collected messages
TimeCollection == "Collection(0)"

IsError(err) == err = ErrorObject

ArgId == "arg"
OtherId == "other"
User == "user"
Bot == "bot"
Stranger == "stranger"

Message == [id |-> "m0", author |-> User, content |-> "!cmd"]
NoMessage == [id |-> "-", author |-> "-", content |-> ""]
Reply(a, w) == [id |-> "r", author |-> a, content |-> w]
PromptMessage(text) == [id |-> "p", author |-> Bot, content |-> text]

\* the words given to process, and the contents of replies
RawWords == {"", " ", " junk ", "Y"}
ReplyWords == {"junk", "Y", "cancel", "Stop"}

toLowerCase(w) ==
    CASE w = "Y" -> "y"
      [] w = "Yes" -> "yes"
      [] w = "No" -> "no"
      [] w = "Cancel" -> "cancel"
      [] w = "STOP" -> "stop"
      [] w = "Stop" -> "stop"
      [] w = "YES" -> "yes"
      [] w = "NO" -> "no"
      [] w = "N" -> "n"
      [] OTHER -> w

trim(w) ==
    CASE w = " " -> ""
      [] w = " junk " -> "junk"
      [] OTHER -> w

Truthy(t) == t \notin {"", Undefined, Null}

Number(b) == IF b THEN 1 ELSE 0

-----------------------------------------------------------------------------
(* Text options *)

TUndefined == [kind |-> "undefined"]
TString(s) == [kind |-> "string", text |-> s]
TArray(l) == [kind |-> "array", lines |-> l]
TFunction(r) == [kind |-> "function", ret |-> r]

RECURSIVE join(_)
join(lines) ==
    IF lines = <<>> THEN ""
    ELSE IF Len(lines) = 1 THEN lines[1]
    ELSE lines[1] \o "\n" \o join(Tail(lines))

\* lines 395-399, for a text option that is no function
Resolved(t) ==
    CASE t.kind = "undefined" -> Undefined
      [] t.kind = "string" -> t.text
      [] t.kind = "array" -> join(t.lines)

\* getText, lines 385-400: the text it returns
getText(textOption) ==
    IF textOption.kind = "function" THEN Resolved(textOption.ret)
    ELSE Resolved(textOption)

\* the call of getText as the step records it; data is what a template
\* function receives (lines 387-392)
TextCall(name, textOption, count, inputMessage, inputWord) ==
    [call |-> "getText", option |-> name,
     data |-> [retries |-> count, infinite |-> isInfinite,
               message |-> inputMessage, word |-> inputWord],
     text |-> getText(textOption)]

-----------------------------------------------------------------------------
(* Types and cast *)

TChoices == [kind |-> "choices",
             list |-> << [array |-> FALSE, names |-> <<"No">>],
                         [array |-> TRUE, names |-> <<"Yes", "y">>] >>]
TUser == [kind |-> "function"]
TNamed(n) == [kind |-> "named", name |-> n]

Types == {TChoices, TUser, TNamed("lowercase"), TNamed("custom")}

\* the user's casting function of the model: it accepts "Y" and answers
\* undefined or null otherwise
UserType(word) ==
    CASE word = "Y" -> "fn(Y)"
      [] word = "junk" -> Undefined
      [] OTHER -> Null

\* handler.resolver.type(name): the registry knows "lowercase"
ResolverHas(name) == name = "lowercase"
ResolverType(name, word) == IF word # "" THEN toLowerCase(word) ELSE Null

\* lines 317 and 321 without the lower-casing
EntryMatchesExact(entry, word) ==
    \E i \in 1..Len(entry.names) : entry.names[i] = word

\* lines 317 and 321
EntryMatches(entry, word) ==
    \E i \in 1..Len(entry.names) :
        toLowerCase(entry.names[i]) = toLowerCase(word)

RECURSIVE castChoices(_, _)
\* lines 315-326
castChoices(list, word) ==
    IF list = <<>> THEN Null
    ELSE IF EntryMatches(Head(list), word) THEN Head(list).names[1]
    ELSE castChoices(Tail(list), word)

NullIfNullish(res) == IF res \in {Null, Undefined} THEN Null ELSE res

\* lines 313-362
cast(type, word) ==
    IF type.kind = "choices" THEN castChoices(type.list, word)
    ELSE IF type.kind = "function" THEN NullIfNullish(UserType(word))
    ELSE IF ResolverHas(type.name) THEN NullIfNullish(ResolverType(type.name, word))
    ELSE IF word # "" THEN word
    ELSE Null

-----------------------------------------------------------------------------
(* Options *)

Assign(target, source) ==
    [k \in DOMAIN target \cup DOMAIN source |->
        IF k \in DOMAIN source THEN source[k] ELSE target[k]]

\* the four text options of a prompt, together
TextProfiles ==
    { [start |-> TUndefined, retry |-> TString(""),
       cancel |-> TArray(<<>>), timeout |-> TUndefined],
      [start |-> TFunction(TString("Say it")),
       retry |-> TFunction(TArray(<<"Invalid", "Again">>)),
       cancel |-> TArray(<<"Cancelled", "Bye">>), timeout |-> TString("Time is up")],
      [start |-> TString("Say it"), retry |-> TUndefined,
       cancel |-> TFunction(TString("Cancelled")), timeout |-> TFunction(TString(""))],
      [start |-> TFunction(TArray(<<>>)), retry |-> TString("Again"),
       cancel |-> TString(""), timeout |-> TArray(<<"Time", "is up">>)] }

\* handler.defaultPrompt and command.defaultPrompt
HandlerDefaultPrompt ==
    [start |-> TString(""), retry |-> TString(""), timeout |-> TString(""),
     ended |-> TString(""), cancel |-> TString(""), retries |-> 1,
     cancelWord |-> "cancel", stopWord |-> "stop", optional |-> FALSE,
     infinite |-> FALSE, limit |-> MaxLimit]
CommandDefaultPrompt == [stopWord |-> "stop"]

NoPrompt == [defined |-> FALSE]

\* the prompt options an argument may be given (ArgumentPromptOptions)
PromptOptions ==
    { Assign([defined |-> TRUE, retries |-> r, optional |-> o, infinite |-> i,
              limit |-> l, cancelWord |-> c], t) :
        r \in 0..MaxRetries, o \in BOOLEAN, i \in BOOLEAN, l \in 0..MaxLimit,
        c \in {"Cancel", "STOP"}, t \in TextProfiles }

\* match and limit are read for an infinite prompt only
Configs ==
    { c \in [type : Types, match : {"word", "separate"},
             prompt : {NoPrompt} \cup PromptOptions, default : {"dflt"}] :
        \/ c.prompt.defined /\ c.prompt.infinite
        \/ c.prompt.defined /\ c.match = "word" /\ c.prompt.limit = MaxLimit
        \/ ~c.prompt.defined /\ c.match = "word" }

\* lines 373-377
prompt ==
    Assign(Assign(HandlerDefaultPrompt, CommandDefaultPrompt),
           IF cfg.prompt.defined THEN cfg.prompt ELSE <<>>)

-----------------------------------------------------------------------------
(* The active-prompt registry: handler.addPrompt, handler.removePrompt *)

Context(m) == m.author
addPrompt(ps, m) == ps \cup {Context(m)}
removePrompt(ps, m) == ps \ {Context(m)}

-----------------------------------------------------------------------------
(* Results and recorded calls *)

NoResult == [kind |-> "none", isSeq |-> FALSE, value |-> Null, seq |-> <<>>]
Ret(v) == [kind |-> "return", isSeq |-> FALSE, value |-> v, seq |-> <<>>]
RetSeq(s) == [kind |-> "return", isSeq |-> TRUE, value |-> Null, seq |-> s]
Throw(e) == [kind |-> "throw", isSeq |-> FALSE, value |-> e, seq |-> <<>>]

Ok == "ok"
NoFail == [cast |-> Ok, send |-> Ok, cancelSend |-> Ok, timeoutSend |-> Ok]

ProcessCall(w) == [call |-> "process", word |-> w]
CastCall(w) == [call |-> "cast", word |-> w]
DefaultCall == [call |-> "default"]
AddCall == [call |-> "addPrompt"]
RemoveCall == [call |-> "removePrompt"]
SendCall(t, res) == [call |-> "send", text |-> t, result |-> res]
AwaitCall == [call |-> "awaitMessages"]
Received(m) == [call |-> "reply", message |-> m]
Rejected(e) == [call |-> "rejected", value |-> e]

\* send the text if there is one (lines 422-423, 444-446, 474-476)
SendIf(text, res) == IF Truthy(text) THEN <<SendCall(text, res)>> ELSE <<>>

Calls(name) == {i \in 1..Len(ev.calls) : ev.calls[i].call = name}
TextCalls(name) == {i \in Calls("getText") : ev.calls[i].option = name}

-----------------------------------------------------------------------------
(* process, lines 284-304 *)

\* line 287 with the optional flag read the wrong way round
SkipsToDefaultInverted(word) ==
    word = "" /\ cfg.prompt.defined /\ ~cfg.prompt.optional

\* line 287
SkipsToDefault(word) ==
    word = "" /\ cfg.prompt.defined /\ cfg.prompt.optional

\* line 296 with a rejection of collect replaced by the default value
ProcessReturnDefaulting(c) == IF c.kind = "throw" THEN Ret(cfg.default) ELSE c

\* line 296: process returns collect's promise, so it ends as collect ends
ProcessReturn(c) == c

\* line 296 taken whether a prompt is configured or not
HasPromptAlways == TRUE

\* line 296: if (this.prompt)
HasPrompt == cfg.prompt.defined

\* line 380 without the test of the match type
IsInfiniteIgnoringMatch(word) == prompt.infinite

\* line 380
IsInfinite(word) ==
    prompt.infinite /\ (IF cfg.match = "separate" THEN word = "" ELSE TRUE)

\* line 483: the counter of the first turn
FirstRetryCount(word) == 1 + Number(word # "")

EndProcess(op, calls, res) ==
    /\ pc' = "done"
    /\ outcome' = res
    /\ ev' = [op |-> op, calls |-> calls]
    /\ UNCHANGED <<cfg, commandInput, isInfinite, values, args, retryCount,
                   prevMessage, sent, prompts, collected, invalidReplies,
                   accepted, removes>>

\* lines 372-383 and the call of line 483
StartCollect(word, calls) ==
    /\ pc' = "turn"
    /\ commandInput' = word
    /\ isInfinite' = IsInfinite(word)
    /\ values' = <<>>
    /\ args' = IF IsInfinite(word) THEN (ArgId :> <<>>) @@ args ELSE args
    /\ retryCount' = FirstRetryCount(word)
    /\ prevMessage' = Message
    /\ ev' = [op |-> "process", calls |-> calls]
    /\ UNCHANGED <<cfg, sent, prompts, collected, outcome, invalidReplies,
                   accepted, removes>>

Process(raw) ==
    /\ pc = "idle"
    /\ LET word == trim(raw)
           res == cast(cfg.type, word)
           called == <<ProcessCall(raw)>>
       IN  IF SkipsToDefault(word)
           THEN EndProcess("process", called \o <<DefaultCall>>, Ret(cfg.default))
           ELSE IF res = Null
           THEN IF HasPrompt
                THEN StartCollect(word, called \o <<CastCall(word)>>)
                ELSE EndProcess("process",
                                called \o <<CastCall(word), DefaultCall>>,
                                Ret(cfg.default))
           ELSE EndProcess("process", called \o <<CastCall(word)>>, Ret(res))

-----------------------------------------------------------------------------
(* promptOne, lines 402-481, and the end of collect, lines 483-486 *)

\* a step of promptOne ends in the next turn, in a value or in a rejection
ToTurn(calls, msg, count, vals) ==
    [to |-> "turn", calls |-> calls, prevMessage |-> msg, retryCount |-> count,
     values |-> vals, result |-> NoResult]
ToReturn(calls, vals, res) ==
    [to |-> "return", calls |-> calls, prevMessage |-> prevMessage,
     retryCount |-> retryCount, values |-> vals, result |-> res]
ToThrow(calls, err) ==
    [to |-> "throw", calls |-> calls, prevMessage |-> prevMessage,
     retryCount |-> retryCount, values |-> values, result |-> Throw(err)]

\* lines 406-408 without the test of the accumulated values
shouldSendAlways == TRUE

\* lines 406-408
shouldSend ==
    IF retryCount = 1
    THEN ~isInfinite \/ (isInfinite /\ Len(values) = 0)
    ELSE TRUE

\* line 411
prompter == IF retryCount = 1 THEN "start" ELSE "retry"

\* lines 413-418
prevInput ==
    IF retryCount <= 1 + Number(commandInput # "")
    THEN commandInput
    ELSE prevMessage.content

\* line 420
StartText == TextCall(prompter, prompt[prompter], retryCount, prevMessage, prevInput)

\* lines 432-435 without the test of line 433
collectorFilterAuthorOnly(m) ==
    IF m.author # Message.author THEN FALSE
    ELSE TRUE

\* lines 432-435: the collector's filter
collectorFilter(m) ==
    IF sent # NoMessage /\ m.id = sent.id THEN FALSE
    ELSE IF m.author # Message.author THEN FALSE
    ELSE TRUE

\* line 442 without the lower-casing
IsCancelWordExact(input) == input.content = prompt.cancelWord

\* line 442
IsCancelWord(input) ==
    toLowerCase(input.content) = toLowerCase(prompt.cancelWord)

\* line 452
IsStopWord(input) ==
    isInfinite /\ toLowerCase(input.content) = toLowerCase(prompt.stopWord)

\* line 463 with the comparison off by one
BelowLimitInclusive(vals) == Len(vals) <= prompt.limit

\* line 463
BelowLimit(vals) == Len(vals) < prompt.limit

\* the catch block without line 478
CatchKeepsPrompt(err, calls, sendResult) ==
    IF IsError(err) THEN ToThrow(calls, err)
    ELSE IF err = COMMAND_CANCELLED THEN ToThrow(calls, err)
    ELSE LET t == TextCall("timeout", prompt.timeout, retryCount, prevMessage, "")
         IN  IF Truthy(t.text) /\ sendResult # Ok
             THEN ToThrow(calls \o <<t, SendCall(t.text, sendResult)>>, sendResult)
             ELSE ToThrow(calls \o <<t>> \o SendIf(t.text, Ok), COMMAND_CANCELLED)

\* the catch block, lines 469-480; sendResult is how the send of line 475 ends
Catch(err, calls, sendResult) ==
    IF IsError(err) THEN ToThrow(calls, err)
    ELSE IF err = COMMAND_CANCELLED THEN ToThrow(calls, err)
    ELSE LET t == TextCall("timeout", prompt.timeout, retryCount, prevMessage, "")
         IN  IF Truthy(t.text) /\ sendResult # Ok
             THEN ToThrow(calls \o <<t, SendCall(t.text, sendResult)>>, sendResult)
             ELSE ToThrow(calls \o <<t>> \o SendIf(t.text, Ok) \o <<RemoveCall>>,
                          COMMAND_CANCELLED)

\* lines 442-450 without the call of line 448
OnCancelKeepsPrompt(input, env) ==
    LET t == TextCall("cancel", prompt.cancel, retryCount, input, "")
        calls == <<Received(input), t>>
    IN  IF Truthy(t.text) /\ env.cancelSend # Ok
        THEN Catch(env.cancelSend,
                   calls \o <<SendCall(t.text, env.cancelSend)>>, env.timeoutSend)
        ELSE Catch(COMMAND_CANCELLED, calls \o SendIf(t.text, Ok), env.timeoutSend)

\* lines 442-450
OnCancel(input, env) ==
    LET t == TextCall("cancel", prompt.cancel, retryCount, input, "")
        calls == <<Received(input), t>>
    IN  IF Truthy(t.text) /\ env.cancelSend # Ok
        THEN Catch(env.cancelSend,
                   calls \o <<SendCall(t.text, env.cancelSend)>>, env.timeoutSend)
        ELSE Catch(COMMAND_CANCELLED,
                   calls \o SendIf(t.text, Ok) \o <<RemoveCall>>, env.timeoutSend)

\* lines 452-455 without the test of line 453
OnStopAlwaysReturns(input) ==
    ToReturn(<<Received(input)>>, values, RetSeq(values))

\* lines 452-455
OnStop(input) ==
    IF Len(values) = 0
    THEN ToTurn(<<Received(input)>>, input, retryCount + 1, values)
    ELSE ToReturn(<<Received(input)>>, values, RetSeq(values))

\* lines 457-468
OnCast(input, env) ==
    LET calls == <<Received(input), CastCall(input.content)>>
        parsedValue == cast(cfg.type, input.content)
    IN  IF env.cast # Ok
        THEN Catch(env.cast, calls \o <<Rejected(env.cast)>>, env.timeoutSend)
        ELSE IF parsedValue = Null
        THEN ToTurn(calls, input, retryCount + 1, values)
        ELSE IF isInfinite
        THEN IF BelowLimit(Append(values, parsedValue))
             THEN ToTurn(calls, Message, 1, Append(values, parsedValue))
             ELSE ToReturn(calls, Append(values, parsedValue),
                           RetSeq(Append(values, parsedValue)))
        ELSE ToReturn(calls, values, Ret(parsedValue))

\* lines 442-468 with the test of line 452 before the test of line 442
OnReplyStopFirst(input, env) ==
    IF IsStopWord(input) THEN OnStop(input)
    ELSE IF IsCancelWord(input) THEN OnCancel(input, env)
    ELSE OnCast(input, env)

\* lines 442-468: what promptOne does with the reply
OnReply(input, env) ==
    IF IsCancelWord(input) THEN OnCancel(input, env)
    ELSE IF IsStopWord(input) THEN OnStop(input)
    ELSE OnCast(input, env)

\* the reply reaches line 457
ReachesCast(input) == ~IsCancelWord(input) /\ ~IsStopWord(input)

\* removePrompt is among the calls of the step
Removes(calls) == \E i \in 1..Len(calls) : calls[i].call = "removePrompt"

\* line 383 as if a copy of the array were stored
ArgsWithCopy(vals) == args

\* line 383 stores the array itself: args[this.id] is the array that line 461
\* pushes to
ArgsWith(vals) == IF isInfinite THEN (ArgId :> vals) @@ args ELSE args

\* the step's effect on the state; a value returned by promptOne goes through
\* lines 483-486
Apply(op, r) ==
    /\ r.retryCount <= MaxRetryCount
    /\ values' = r.values
    /\ args' = ArgsWith(r.values)
    /\ accepted' = IF Len(r.values) > Len(values)
                   THEN Append(accepted, r.calls[1].message.content)
                   ELSE accepted
    /\ IF r.to = "turn"
       THEN /\ pc' = "turn"
            /\ retryCount' = r.retryCount
            /\ prevMessage' = r.prevMessage
            /\ invalidReplies' = invalidReplies + Number(r.retryCount > retryCount)
            /\ ev' = [op |-> op, calls |-> r.calls]
            /\ UNCHANGED <<prompts, collected, outcome>>
       ELSE /\ pc' = "done"
            /\ ev' = [op |-> op,
                      calls |-> IF r.to = "return" THEN r.calls \o <<RemoveCall>>
                                ELSE r.calls]
            /\ prompts' = IF r.to = "return" \/ Removes(r.calls)
                          THEN removePrompt(prompts, Message) ELSE prompts
            /\ collected' = r.result
            /\ outcome' = ProcessReturn(r.result)
            /\ UNCHANGED <<retryCount, prevMessage, invalidReplies>>
    /\ removes' = removes + Cardinality(Calls("removePrompt")')
    /\ UNCHANGED <<cfg, commandInput, isInfinite, sent>>

\* lines 402-432: a turn up to the wait for the reply
PromptOne ==
    /\ pc = "turn"
    /\ pc' = "await"
    /\ prompts' = addPrompt(prompts, Message)
    /\ sent' = IF shouldSend /\ Truthy(StartText.text)
               THEN PromptMessage(StartText.text) ELSE NoMessage
    /\ ev' = [op |-> "promptOne",
              calls |-> <<AddCall>>
                        \o (IF shouldSend
                            THEN <<StartText>> \o SendIf(StartText.text, Ok)
                            ELSE <<>>)
                        \o <<AwaitCall>>]
    /\ UNCHANGED <<cfg, commandInput, isInfinite, values, args, retryCount,
                   prevMessage, collected, outcome, invalidReplies, accepted,
                   removes>>

\* the messages that may arrive while the collector waits: replies of the
\* author and of somebody else, and the prompt message itself, which the
\* client wrote and which has the author's id when the client runs on the
\* author's own account
Inbound ==
    {Reply(a, w) : a \in {User, Stranger}, w \in ReplyWords}
        \cup (IF sent # NoMessage
              THEN {sent, [sent EXCEPT !.author = Message.author]}
              ELSE {})

\* awaitMessages resolves with a reply
AwaitReply(m) ==
    /\ pc = "await"
    /\ collectorFilter(m)
    /\ Apply("reply", OnReply(m, NoFail))

\* awaitMessages rejects because the time is up
Timeout ==
    /\ pc = "await"
    /\ Apply("timeout", Catch(TimeCollection, <<Rejected(TimeCollection)>>, Ok))

-----------------------------------------------------------------------------
(* Failures of the transport and of the user's casting function *)

\* the type calls a function that may throw or reject
MayThrow(type) ==
    type.kind = "function" \/ (type.kind = "named" /\ ResolverHas(type.name))

\* line 293 rejects
ProcessCastFails(raw, err) ==
    /\ pc = "idle"
    /\ ~SkipsToDefault(trim(raw))
    /\ MayThrow(cfg.type)
    /\ EndProcess("processCastFails",
                  <<ProcessCall(raw), CastCall(trim(raw)), Rejected(err)>>,
                  Throw(err))

\* line 423 rejects: the rejection leaves promptOne, collect and process
PromptSendFails(err) ==
    /\ pc = "turn"
    /\ shouldSend /\ Truthy(StartText.text)
    /\ pc' = "done"
    /\ prompts' = addPrompt(prompts, Message)
    /\ collected' = Throw(err)
    /\ outcome' = ProcessReturn(Throw(err))
    /\ ev' = [op |-> "promptSendFails",
              calls |-> <<AddCall, StartText, SendCall(StartText.text, err)>>]
    /\ UNCHANGED <<cfg, commandInput, isInfinite, values, args, retryCount,
                   prevMessage, sent, invalidReplies, accepted, removes>>

\* awaitMessages rejects with something other than the time-out
AwaitFails(err) ==
    /\ pc = "await"
    /\ Apply("awaitFails", Catch(err, <<Rejected(err)>>, Ok))

\* line 457 rejects
CastFails(m, err) ==
    /\ pc = "await"
    /\ collectorFilter(m)
    /\ ReachesCast(m)
    /\ MayThrow(cfg.type)
    /\ Apply("castFails", OnReply(m, [NoFail EXCEPT !.cast = err]))

\* line 445 rejects
CancelSendFails(m, err) ==
    /\ pc = "await"
    /\ collectorFilter(m)
    /\ IsCancelWord(m)
    /\ Truthy(getText(prompt.cancel))
    /\ Apply("cancelSendFails", OnReply(m, [NoFail EXCEPT !.cancelSend = err]))

\* line 475 rejects after the time-out
TimeoutSendFails(err) ==
    /\ pc = "await"
    /\ Truthy(getText(prompt.timeout))
    /\ Apply("timeoutSendFails",
             Catch(TimeCollection, <<Rejected(TimeCollection)>>, err))

-----------------------------------------------------------------------------
(* Specifications *)

Init ==
    /\ cfg \in Configs
    /\ pc = "idle"
    /\ commandInput = ""
    /\ isInfinite = FALSE
    /\ values = <<>>
    /\ args = (OtherId :> <<"prev">>)
    /\ retryCount = 0
    /\ prevMessage = NoMessage
    /\ sent = NoMessage
    /\ prompts = {}
    /\ collected = NoResult
    /\ outcome = NoResult
    /\ ev = [op |-> "init", calls |-> <<>>]
    /\ invalidReplies = 0
    /\ accepted = <<>>
    /\ removes = 0

Next ==
    \/ \E raw \in RawWords : Process(raw)
    \/ PromptOne
    \/ \E m \in Inbound : AwaitReply(m)
    \/ Timeout

\* the transport and the casting function keep their contracts
Spec == Init /\ [][Next]_vars

NextF ==
    \/ Next
    \/ \E raw \in RawWords, err \in Failures : ProcessCastFails(raw, err)
    \/ \E err \in TransportFailures : PromptSendFails(err)
    \/ \E err \in TransportFailures : AwaitFails(err)
    \/ \E m \in Inbound, err \in Failures : CastFails(m, err)
    \/ \E m \in Inbound, err \in TransportFailures : CancelSendFails(m, err)
    \/ \E err \in TransportFailures : TimeoutSendFails(err)

\* the transport and the casting function may fail
SpecF == Init /\ [][NextF]_vars

-----------------------------------------------------------------------------
(* Argument.cast called on its own with an enumerated-choice type *)

\* candidates of a choice list: plain strings and alias arrays
ChoiceEntries ==
    { [array |-> FALSE, names |-> <<"No">>],
      [array |-> FALSE, names |-> <<"y">>],
      [array |-> FALSE, names |-> <<"YES">>],
      [array |-> TRUE, names |-> <<"Yes", "y">>],
      [array |-> TRUE, names |-> <<"N", "no">>],
      [array |-> TRUE, names |-> <<>>] }

ChoiceLists == UNION {[1..n -> ChoiceEntries] : n \in 0..MaxChoices}

CastWords == {"", "junk", "Y", "y", "yes", "YES", "no", "NO", "n"}

CastConfigs ==
    { [type |-> [kind |-> "choices", list |-> l], match |-> "word",
       prompt |-> NoPrompt, default |-> "dflt"] : l \in ChoiceLists }

InitCast ==
    /\ cfg \in CastConfigs
    /\ pc = "idle"
    /\ commandInput = ""
    /\ isInfinite = FALSE
    /\ values = <<>>
    /\ args = (OtherId :> <<"prev">>)
    /\ retryCount = 0
    /\ prevMessage = NoMessage
    /\ sent = NoMessage
    /\ prompts = {}
    /\ collected = NoResult
    /\ outcome = NoResult
    /\ ev = [op |-> "init", calls |-> <<>>]
    /\ invalidReplies = 0
    /\ accepted = <<>>
    /\ removes = 0

\* lines 313-327: cast resolves with the value found
Cast(word) ==
    /\ pc = "idle"
    /\ EndProcess("cast", <<CastCall(word)>>, Ret(cast(cfg.type, word)))

NextCast == \E word \in CastWords : Cast(word)

SpecCast == InitCast /\ [][NextCast]_vars

-----------------------------------------------------------------------------
(* Claims *)

Prompting == pc \in {"turn", "await"}

\* the retry turns started since the first turn, as a counter value shows them
RetryTurns(count) == count - FirstRetryCount(commandInput)

\* C1: the retry counter of a turn, which is the retries value handed to the
\* start and retry templates, never shows more retry turns than the configured
\* retries: the counter never exceeds its first value by more than retries.
C1_RetriesIsCeiling ==
    /\ Prompting => RetryTurns(retryCount) <= prompt.retries
    /\ \A i \in TextCalls("start") \cup TextCalls("retry") :
          RetryTurns(ev.calls[i].data.retries) <= prompt.retries

\* C2: when every reply has arrived in time and been invalid, collect has
\* ended once more replies than the configured retries have been given: it is
\* not still starting turns.
C2_InvalidRepliesExhaustBudget ==
    (accepted = <<>> /\ invalidReplies > prompt.retries) => pc = "done"

\* C3: in an infinite prompt the accumulated sequence is never longer than the
\* configured limit, and neither is a sequence that collect returns.
C3_LimitIsCeiling ==
    isInfinite =>
        /\ Len(values) <= prompt.limit
        /\ (collected.kind = "return" /\ collected.isSeq)
              => Len(collected.seq) <= prompt.limit

CastAll(words) == [i \in 1..Len(words) |-> cast(cfg.type, words[i])]

\* C4: in an infinite prompt with limit L >= 1, as soon as L replies have been
\* cast successfully collect has returned the L cast values in the order of
\* the replies, and the step that accepted the L-th value registered nothing,
\* sent nothing and awaited nothing.
C4_LimitReachedReturnsSequence ==
    (isInfinite /\ prompt.limit >= 1 /\ Len(accepted) = prompt.limit) =>
        /\ pc = "done"
        /\ ev.op = "reply"
        /\ collected = RetSeq(CastAll(accepted))
        /\ Len(collected.seq) = prompt.limit
        /\ Calls("addPrompt") = {} /\ Calls("send") = {}
        /\ Calls("getText") = {} /\ Calls("awaitMessages") = {}

\* C4's case: a limit of two reached with invalid replies before the values
C4_Witness ==
    /\ isInfinite /\ prompt.limit = 2 /\ Len(accepted) = 2
    /\ invalidReplies >= 1
    /\ pc = "done"

\* the reply that the last step handled
LastReply == ev.calls[1].message
EqualsWord(m, word) == toLowerCase(m.content) = toLowerCase(word)
NoTurnStarted ==
    Calls("addPrompt") = {} /\ Calls("awaitMessages") = {} /\ pc = "done"

\* C5: a reply that equals the cancel word, whatever its case, ends collect
\* with the cancellation signal: no turn follows, the context is no longer
\* registered, the reply is not cast, and the cancel text is sent once when
\* it is not empty and not at all when it is.
C5_CancelWordCancels ==
    (ev.op = "reply" /\ EqualsWord(LastReply, prompt.cancelWord)) =>
        /\ NoTurnStarted
        /\ collected = Throw(COMMAND_CANCELLED)
        /\ Context(Message) \notin prompts
        /\ Cardinality(Calls("removePrompt")) = 1
        /\ Calls("cast") = {}
        /\ Cardinality(Calls("send")) = Number(Truthy(getText(prompt.cancel)))
        /\ \A i \in Calls("send") : ev.calls[i].text = getText(prompt.cancel)

\* C5's case: the cancel word in another case, on a retry turn of an infinite
\* prompt that holds a value, with a cancel text
C5_Witness ==
    /\ ev.op = "reply" /\ LastReply.content = "cancel"
    /\ prompt.cancelWord = "Cancel"
    /\ isInfinite /\ Len(values) >= 1 /\ retryCount >= 2
    /\ Calls("send") # {}
    /\ collected = Throw(COMMAND_CANCELLED)

\* C6: when the time is up collect ends with the cancellation signal: no turn
\* follows, the context is no longer registered, and between the time-out and
\* the signal the time-out text is sent once when it is not empty and nothing
\* is sent when it is.
C6_TimeoutCancels ==
    ev.op = "timeout" =>
        /\ NoTurnStarted
        /\ collected = Throw(COMMAND_CANCELLED)
        /\ Context(Message) \notin prompts
        /\ Calls("rejected") = {1}
        /\ Calls("removePrompt") = {Len(ev.calls)}
        /\ Cardinality(Calls("send")) = Number(Truthy(getText(prompt.timeout)))
        /\ \A i \in Calls("send") :
              /\ ev.calls[i].text = getText(prompt.timeout)
              /\ 1 < i /\ i < Len(ev.calls)

\* C6's case: the time is up on a retry turn and there is a time-out text
C6_Witness ==
    /\ ev.op = "timeout" /\ retryCount >= 2
    /\ Calls("send") # {}
    /\ collected = Throw(COMMAND_CANCELLED)

\* what the claim says of a reply that is the stop word
StopWordEffect ==
    IF values = <<>>
    THEN /\ pc' = "turn"
         /\ retryCount' = retryCount + 1
         /\ values' = <<>>
         /\ collected' = NoResult
    ELSE /\ pc' = "done"
         /\ collected' = RetSeq(values)
         /\ Calls("cast")' = {}
         /\ Calls("addPrompt")' = {} /\ Calls("awaitMessages")' = {}

StopWordReplied ==
    /\ pc = "await" /\ isInfinite
    /\ ev'.op = "reply" /\ EqualsWord(LastReply', prompt.stopWord)

\* C7 as stated: in an infinite prompt a reply that equals the stop word
\* starts another turn with the counter raised by one and appends nothing
\* when nothing is accumulated, and returns the accumulated sequence at
\* once, uncast, when something is.
C7_StopWordAsStated == [][StopWordReplied => StopWordEffect]_vars

\* C7 amended: the same for a reply that equals the stop word and does not
\* equal the cancel word.
C7_StopWord ==
    [][(StopWordReplied /\ ~EqualsWord(LastReply', prompt.cancelWord))
          => StopWordEffect]_vars

\* C7's case: the stop word was refused while nothing was accumulated, by a
\* turn with a raised counter
C7_Witness ==
    /\ isInfinite /\ ev.op = "reply" /\ LastReply.content = "Stop"
    /\ ~EqualsWord(LastReply, prompt.cancelWord)
    /\ pc = "turn" /\ values = <<>> /\ retryCount = 2

\* C8: process with a word that is empty after trimming and an optional prompt
\* returns the default value, and casts nothing, registers nothing, sends
\* nothing and awaits nothing.
C8_OptionalSkipsToDefault ==
    (/\ ev.op = "process" /\ trim(ev.calls[1].word) = ""
     /\ cfg.prompt.defined /\ cfg.prompt.optional) =>
        /\ pc = "done"
        /\ outcome = Ret(cfg.default)
        /\ collected = NoResult
        /\ Calls("cast") = {}
        /\ Calls("addPrompt") = {} /\ prompts = {}
        /\ Calls("send") = {} /\ Calls("awaitMessages") = {}

\* C8's case: a word of blanks and an optional prompt
C8_Witness ==
    /\ ev.op = "process" /\ ev.calls[1].word = " "
    /\ cfg.prompt.defined /\ cfg.prompt.optional
    /\ outcome = Ret(cfg.default)

\* C9: when collect ends with the cancellation signal, by the cancel word or
\* by the time-out, process ends with that signal too: it returns no value
\* and the default provider is not called.
C9_CancellationPropagates ==
    (ev.op \in {"reply", "timeout"} /\ collected = Throw(COMMAND_CANCELLED)) =>
        /\ outcome = Throw(COMMAND_CANCELLED)
        /\ Calls("default") = {}

\* C9's case: collect was cancelled by the user
C9_Witness ==
    /\ ev.op = "reply" /\ EqualsWord(LastReply, prompt.cancelWord)
    /\ collected = Throw(COMMAND_CANCELLED)
    /\ outcome = Throw(COMMAND_CANCELLED)

\* the first failure among the calls of the last step
FailedCalls ==
    {i \in 1..Len(ev.calls) :
        \/ ev.calls[i].call = "rejected"
        \/ ev.calls[i].call = "send" /\ ev.calls[i].result # Ok}
FirstFailure ==
    LET i == CHOOSE j \in FailedCalls : \A k \in FailedCalls : j <= k
    IN  IF ev.calls[i].call = "send" THEN ev.calls[i].result
        ELSE ev.calls[i].value

\* C10: a failure of the casting function or of a transport operation during a
\* turn, other than the time-out, ends collect with that same failure: not
\* with the cancellation signal, and without the time-out text.
C10_FailuresAreReraised ==
    ev.op \in {"promptSendFails", "awaitFails", "castFails", "cancelSendFails"} =>
        /\ collected = Throw(FirstFailure)
        /\ TextCalls("timeout") = {}

\* C11: every turn starts by registering the context, the context is not
\* deregistered while turns are still run, and a collect that ended with a
\* value, a sequence, a cancellation by the user or a time-out has
\* deregistered it exactly once in total, however many turns were run.
C11_RegisteredEachTurnRemovedOnce ==
    /\ ev.op \in {"promptOne", "promptSendFails"} =>
          /\ ev.calls[1] = AddCall
          /\ Context(Message) \in prompts
    /\ Prompting => removes = 0
    /\ (collected.kind = "return" \/ collected = Throw(COMMAND_CANCELLED)) =>
          /\ removes = 1
          /\ Context(Message) \notin prompts

\* C11's case: an infinite prompt that ran several turns, one of them after an
\* invalid reply, and was cancelled by the user
C11_Witness ==
    /\ ev.op = "reply" /\ EqualsWord(LastReply, prompt.cancelWord)
    /\ isInfinite /\ Len(values) >= 1 /\ invalidReplies >= 1
    /\ collected = Throw(COMMAND_CANCELLED)
    /\ removes = 1

\* C12: when process casts the trimmed word and the cast value is not null,
\* process returns that value; when the cast value is null and the argument
\* has no prompt, process returns the default value. In both cases nothing is
\* registered, sent or awaited, and without a prompt the cancellation signal
\* is never raised.
C12_CastDecidesWithoutPrompt ==
    /\ (ev.op = "process" /\ Calls("cast") # {}) =>
          LET res == cast(cfg.type, trim(ev.calls[1].word))
          IN  /\ res # Null =>
                    /\ outcome = Ret(res) /\ Calls("default") = {}
                    /\ NoTurnStarted /\ Calls("send") = {} /\ prompts = {}
              /\ (res = Null /\ ~cfg.prompt.defined) =>
                    /\ outcome = Ret(cfg.default)
                    /\ Calls("default") = {Len(ev.calls)}
                    /\ NoTurnStarted /\ Calls("send") = {} /\ prompts = {}
    /\ ~cfg.prompt.defined =>
          /\ ~Prompting /\ collected = NoResult
          /\ outcome # Throw(COMMAND_CANCELLED)

\* C12's case: no prompt and a word that no choice matches
C12_Witness ==
    /\ ev.op = "process" /\ ev.calls[1].word = " junk "
    /\ ~cfg.prompt.defined /\ cfg.type = TChoices
    /\ Calls("cast") # {}
    /\ outcome = Ret(cfg.default)

\* the steps that handle a reply
ReplySteps == {"reply", "castFails", "cancelSendFails"}

\* C13: a reply is tested against the cancel word first, then, in an infinite
\* prompt, against the stop word, and only then cast. A reply equal to the
\* cancel word is never cast and never appended, even if it equals the stop
\* word too or the type would accept it, and it ends collect with a rejection;
\* a reply taken as the stop word is never cast; every other reply is cast,
\* with its content as the word.
C13_CancelThenStopThenCast ==
    [][ev'.op \in ReplySteps =>
          IF EqualsWord(LastReply', prompt.cancelWord)
          THEN /\ Calls("cast")' = {}
               /\ values' = values /\ accepted' = accepted
               /\ pc' = "done" /\ collected'.kind = "throw"
               /\ ev'.op = "reply" => collected' = Throw(COMMAND_CANCELLED)
          ELSE IF isInfinite /\ EqualsWord(LastReply', prompt.stopWord)
          THEN /\ Calls("cast")' = {}
               /\ values' = values /\ accepted' = accepted
          ELSE /\ Calls("cast")' = {2}
               /\ ev'.calls[2].word = LastReply'.content]_vars

\* C13's case: the cancel word and the stop word are equal, the reply is that
\* word, the type would accept it and a value has been accumulated
C13_Witness ==
    /\ ev.op = "reply" /\ LastReply.content = "Stop"
    /\ EqualsWord(LastReply, prompt.cancelWord)
    /\ EqualsWord(LastReply, prompt.stopWord)
    /\ isInfinite /\ Len(values) >= 1
    /\ cast(cfg.type, LastReply.content) # Null
    /\ Calls("cast") = {}
    /\ collected = Throw(COMMAND_CANCELLED)

\* what collect returns when it accumulates: the cast values of the accepted
\* replies, in order
ReturnsSequence ==
    /\ collected.isSeq
    /\ collected.seq = CastAll(accepted)
    /\ \A i \in 1..Len(collected.seq) : collected.seq[i] # Null

\* what collect returns when it does not: the cast value of the last reply
ReturnsSingle ==
    /\ ~collected.isSeq
    /\ ev.op = "reply"
    /\ collected.value = cast(cfg.type, LastReply.content)
    /\ collected.value # Null

\* C14 as stated: with infinite set in the effective prompt options every
\* value collect returns is a sequence of cast values, whatever the match
\* mode and the failing token; with infinite unset it is the single cast
\* value of the last reply.
C14_InfiniteAsStated ==
    collected.kind = "return" =>
        IF prompt.infinite THEN ReturnsSequence ELSE ReturnsSingle

\* C14: with infinite set, every value collect returns is a sequence of cast
\* values unless the match mode is "separate" and the failing token is not
\* empty; in that case, and with infinite unset, it is the single cast value
\* of the last reply.
C14_InfiniteReturnsSequence ==
    collected.kind = "return" =>
        IF prompt.infinite /\ ~(cfg.match = "separate" /\ commandInput # "")
        THEN ReturnsSequence
        ELSE ReturnsSingle

\* C14's case: infinite is set, the match mode is "separate", the failing
\* token is not empty and collect has returned
C14_Witness ==
    /\ collected.kind = "return"
    /\ prompt.infinite /\ cfg.match = "separate" /\ commandInput = "junk"
    /\ ~collected.isSeq /\ collected.value # Null

\* the candidates of the list that match the word when case is ignored
MatchingCandidates(list, word) ==
    {i \in 1..Len(list) :
        \E j \in 1..Len(list[i].names) :
            toLowerCase(list[i].names[j]) = toLowerCase(word)}

\* C15: for an enumerated-choice type, cast returns for the first candidate
\* of the list that matches the word when case is ignored the candidate
\* itself, if it is a plain string, or the first element of the alias array,
\* if it is one; when no candidate matches, cast returns null, and not the
\* word, without raising.
C15_ChoicesCast ==
    (ev.op = "cast" /\ cfg.type.kind = "choices") =>
        LET list == cfg.type.list
            word == ev.calls[1].word
            hits == MatchingCandidates(list, word)
            first == CHOOSE i \in hits : \A k \in hits : i <= k
        IN  /\ outcome.kind = "return"
            /\ IF hits = {} THEN outcome.value = Null /\ outcome.value # word
               ELSE outcome.value = list[first].names[1]

\* C15's case: the word matches, in another case, the second alias of the
\* second candidate, and a third spelling of it is no candidate
C15_Witness ==
    /\ ev.op = "cast" /\ ev.calls[1].word = "NO"
    /\ Len(cfg.type.list) = 2
    /\ cfg.type.list[1] = [array |-> FALSE, names |-> <<"YES">>]
    /\ cfg.type.list[2] = [array |-> TRUE, names |-> <<"N", "no">>]
    /\ outcome = Ret("N")

\* C16: the context is in the registry of active prompts only while a collect
\* call for it is in progress; once collect has ended, by a value, by the
\* cancellation signal or by a failure of a send, of the wait or of the
\* casting function, the context is not registered.
C16_RegisteredOnlyWhileCollecting ==
    Context(Message) \in prompts => Prompting

\* the text option a turn with this counter is to use, by the claim's rule
ChosenText ==
    IF retryCount > 1 THEN "retry"
    ELSE IF ~isInfinite \/ values = <<>> THEN "start"
    ELSE "none"

\* C17: the counter of the first turn is 1 if the failing token was empty
\* and 2 otherwise; a turn sends at most one text, before the wait for the
\* reply starts: the start text if the counter is 1 and the prompt is not
\* infinite or nothing has been accumulated, the retry text if the counter
\* is greater than 1, and nothing if the counter is 1 in an infinite prompt
\* that holds a value or if the chosen text resolves to empty.
C17_TextOfTheTurn ==
    /\ (ev.op = "process" /\ pc = "turn") =>
          retryCount = (IF commandInput = "" THEN 1 ELSE 2)
    /\ ev.op = "promptOne" =>
          LET text == IF ChosenText = "none" THEN ""
                      ELSE getText(prompt[ChosenText])
          IN  /\ Cardinality(Calls("send")) = Number(Truthy(text))
              /\ \A i \in Calls("send") :
                    /\ ev.calls[i].text = text
                    /\ ev.calls[i].result = Ok
                    /\ \A j \in Calls("awaitMessages") : i < j
              /\ \A i \in Calls("getText") : ev.calls[i].option = ChosenText
              /\ (sent # NoMessage) = Truthy(text)

\* C17's case: a turn with counter 1 of an infinite prompt that holds a value
\* and has a start text: nothing is sent
C17_Witness ==
    /\ ev.op = "promptOne" /\ retryCount = 1
    /\ isInfinite /\ Len(values) >= 1
    /\ Truthy(getText(prompt.start))
    /\ Calls("send") = {} /\ sent = NoMessage

\* the calls of a start or retry template function in the last step
TemplateCalls ==
    {i \in TextCalls("start") \cup TextCalls("retry") :
        prompt[ev.calls[i].option].kind = "function"}

\* C18: a start or retry template function receives as word the original
\* failing token on the turns that no invalid reply caused (its message is
\* then the originating message), and on every turn caused by an invalid
\* reply the content of that reply, which is the message it receives; also
\* in an infinite prompt after an accepted value has reset the counter.
C18_WordIsTheFailedInput ==
    \A i \in TemplateCalls :
        LET data == ev.calls[i].data
        IN  IF data.message = Message
            THEN data.word = commandInput
            ELSE data.word = data.message.content

\* C19: a turn registers the context first, then sends its text, if any, and
\* the send has completed before the wait for the reply starts, which is the
\* last thing the step does; a step that handles a reply handles exactly one,
\* taken while the turn waits, and the turn waits no longer afterwards; the
\* reply is from the author of the originating message and is not the prompt
\* message sent in that turn.
C19_TurnOrderAndReply ==
    /\ [](ev.op = "promptOne" =>
            /\ Calls("addPrompt") = {1}
            /\ Calls("awaitMessages") = {Len(ev.calls)}
            /\ \A i \in Calls("send") :
                  /\ 1 < i /\ i < Len(ev.calls)
                  /\ ev.calls[i].result = Ok
            /\ pc = "await")
    /\ [](ev.op \in ReplySteps =>
            /\ Calls("reply") = {1}
            /\ LastReply.author = Message.author
            /\ sent # NoMessage => LastReply.id # sent.id)
    /\ [][ev'.op \in ReplySteps => pc = "await" /\ pc' # "await"]_vars

\* C19's case: a reply was handled in a turn that had sent a prompt message
C19_Witness ==
    /\ ev.op = "reply" /\ sent # NoMessage
    /\ LastReply = Reply(User, "Y")
    /\ retryCount >= 2

\* C20: in an infinite prompt the map of previous arguments holds, from before
\* the first turn on, the accumulated sequence under the argument's id: in
\* every state of the collect call, so whenever the casting function or a
\* template function is called, that entry is exactly the cast values of the
\* replies accepted so far, the other entries are untouched, and the sequence
\* collect returns is that entry. In a prompt that is not infinite the map is
\* left as it was.
C20_ArgsHoldAccumulated ==
    /\ (isInfinite /\ pc # "idle") =>
          /\ DOMAIN args = {ArgId, OtherId}
          /\ args[ArgId] = values
          /\ args[ArgId] = CastAll(accepted)
          /\ args[OtherId] = <<"prev">>
    /\ (isInfinite /\ ev.op = "process") => args[ArgId] = <<>>
    /\ (isInfinite /\ collected.kind = "return") =>
          collected.isSeq /\ collected.seq = args[ArgId]
    /\ ~isInfinite => args = (OtherId :> <<"prev">>)

\* C20's case: a retry turn of an infinite prompt that holds a value calls a
\* template function
C20_Witness ==
    /\ ev.op = "promptOne" /\ isInfinite
    /\ TemplateCalls # {}
    /\ Len(accepted) >= 1
    /\ args[ArgId] = CastAll(accepted)

====
